---- MODULE Spec2Model ----
(***************************************************************************)
(* Model of src/src/App.js: the metadata-attachment and license-generation *)
(* pipeline of the "Metadata and License Manager" React application.       *)
(*                                                                         *)
(* A JavaScript string is modelled as a sequence of atoms.  An atom is a   *)
(* chunk of text that the program never looks inside: a placeholder token  *)
(* such as "{year}", a markup tag, a newline, a space, a word, or a single *)
(* character of a rendered date.  The empty string is the empty sequence.  *)
(***************************************************************************)
EXTENDS Integers, Sequences, FiniteSets, TLC

\* ------------------------------------------------------------------ bounds
MaxFiles == 2
MaxEdits == 1
MaxAuthors == 2
MaxDownloads == 2

\* ------------------------------------------------------------ text helpers
NL == "\n"
SP == " "

\* the value a missing property reads as
Undefined == <<"#undefined">>

\* JavaScript truthiness of a string-valued property
Truthy(v) == v # Undefined /\ v # <<>>

\* a || b
OrElse(a, b) == IF Truthy(a) THEN a ELSE b

RECURSIVE Flatten(_)
Flatten(ss) == IF ss = <<>> THEN <<>> ELSE Head(ss) \o Flatten(Tail(ss))

\* String.prototype.replace(/token/g, value)
ReplaceAll(text, token, value) ==
  Flatten([i \in 1..Len(text) |-> IF text[i] = token THEN value ELSE <<text[i]>>])

\* Array.prototype.join(', ') over strings; an empty string contributes nothing
RECURSIVE JoinComma(_)
JoinComma(strs) ==
  IF strs = <<>> THEN <<>>
  ELSE LET h == IF Head(strs) = "" THEN <<>> ELSE <<Head(strs)>>
       IN IF Len(strs) = 1 THEN h ELSE h \o <<",", SP>> \o JoinComma(Tail(strs))

\* String.prototype.split('\n'): the list of lines
RECURSIVE SplitOn(_, _)
SplitOn(text, sep) ==
  IF \A i \in 1..Len(text) : text[i] # sep THEN <<text>>
  ELSE LET k == CHOOSE i \in 1..Len(text) :
                   text[i] = sep /\ \A j \in 1..(i-1) : text[j] # sep
       IN <<SubSeq(text, 1, k-1)>> \o SplitOn(SubSeq(text, k+1, Len(text)), sep)

\* Array.prototype.join(sep) over lines
RECURSIVE JoinWith(_, _)
JoinWith(parts, sep) ==
  IF parts = <<>> THEN <<>>
  ELSE IF Len(parts) = 1 THEN Head(parts)
  ELSE Head(parts) \o <<sep>> \o JoinWith(Tail(parts), sep)

\* String.prototype.trim on one line
RECURSIVE TrimLeft(_)
TrimLeft(line) ==
  IF line # <<>> /\ Head(line) = SP THEN TrimLeft(Tail(line)) ELSE line

RECURSIVE TrimRight(_)
TrimRight(line) ==
  IF line # <<>> /\ line[Len(line)] = SP
  THEN TrimRight(SubSeq(line, 1, Len(line)-1)) ELSE line

Trim(line) == TrimRight(TrimLeft(line))

\* text contains part as a contiguous piece
Contains(text, part) ==
  \E i \in 0..(Len(text) - Len(part)) : SubSeq(text, i+1, i+Len(part)) = part

\* --------------------------------------------------------------- the config
Placeholders ==
  <<"{filename}", "{downloadDate}", "{year}", "{institution}",
    "{website}", "{contact}", "{authorsList}">>

PlaceholderSet == {Placeholders[i] : i \in 1..Len(Placeholders)}

defaultMetadata ==
  [source      |-> <<"Your Website Name">>,
   authors     |-> <<>>,
   institution |-> <<"Your Institution Name">>,
   website     |-> <<"Your Website URL">>,
   contact     |-> <<"Your Contact Info">>]

AudioExt == {"wav", "mp3", "ogg", "flac"}
PlainExt == {"mp4", "webm", "jpg", "jpeg", "png", "gif", "webp"}

\* config.supportedTypes[ext] with its handler, "none" for a null handler,
\* and Lookup of a key the table does not have is undefined (no descriptor)
supportedTypes(ext) ==
  IF ext \in AudioExt THEN [known |-> TRUE, handler |-> "attachAudioMetadata"]
  ELSE IF ext = "pdf" THEN [known |-> TRUE, handler |-> "attachPDFMetadata"]
  ELSE IF ext \in PlainExt THEN [known |-> TRUE, handler |-> "none"]
  ELSE [known |-> FALSE, handler |-> "none"]

\* the license template of the config, cut down to the lines that carry
\* placeholders (one line per placeholder use)
licenseTextTemplate ==
  <<"File:", SP, "{filename}", NL,
    "Date:", SP, "{downloadDate}", NL,
    "(c)", SP, "{year}", SP, "{institution}", NL,
    "Authors:", NL,
    "{authorsList}", NL,
    "Website:", SP, "{website}", NL,
    "Contact:", SP, "{contact}", NL>>

\* ------------------------------------------------------------------- dates
DigitChar == <<"0", "1", "2", "3", "4", "5", "6", "7", "8", "9">>
IsDigit(c) == \E k \in 1..10 : DigitChar[k] = c

\* decimal digits of n, one atom per character
RECURSIVE Digits(_)
Digits(n) == IF n < 10 THEN <<DigitChar[n+1]>>
             ELSE Digits(n \div 10) \o <<DigitChar[(n % 10) + 1]>>

Pad2(n) == IF n < 10 THEN <<"0">> \o Digits(n) ELSE Digits(n)

\* Date.prototype.toLocaleDateString(locale, numeric year/month/day)
toLocaleDateString(date, loc) ==
  CASE loc = "en-CA" -> Digits(date.year) \o <<"-">> \o Pad2(date.month) \o <<"-">> \o Pad2(date.day)
    [] loc = "en-GB" -> Pad2(date.day) \o <<"/">> \o Pad2(date.month) \o <<"/">> \o Digits(date.year)
    [] OTHER         -> Digits(date.month) \o <<"/">> \o Digits(date.day) \o <<"/">> \o Digits(date.year)

AllDigits(s, from, n) ==
  /\ from >= 1 /\ from + n - 1 <= Len(s)
  /\ \A k \in from..(from + n - 1) : IsDigit(s[k])

CharAt(s, i, c) == i >= 1 /\ i <= Len(s) /\ s[i] = c

\* /(\d{1,2})\/(\d{4})/ matches at position i with a first group of n digits
MatchMY(s, i, n) ==
  AllDigits(s, i, n) /\ CharAt(s, i + n, "/") /\ AllDigits(s, i + n + 1, 4)

\* s.replace(/(\d{1,2})\/(\d{4})/, '$2-$1'): leftmost match, greedy group
ReplaceMonthYear(s) ==
  LET hits == {i \in 1..Len(s) : MatchMY(s, i, 2) \/ MatchMY(s, i, 1)}
  IN IF hits = {} THEN s
     ELSE LET i == CHOOSE h \in hits : \A g \in hits : h <= g
              n == IF MatchMY(s, i, 2) THEN 2 ELSE 1
          IN SubSeq(s, 1, i - 1)
             \o SubSeq(s, i + n + 1, i + n + 4) \o <<"-">> \o SubSeq(s, i, i + n - 1)
             \o SubSeq(s, i + n + 5, Len(s))

\* /(\d{1,2})\/(\d{1,2})\/(\d{4})/ matches at i with groups of n and m digits
MatchDMY(s, i, n, m) ==
  /\ AllDigits(s, i, n) /\ CharAt(s, i + n, "/")
  /\ AllDigits(s, i + n + 1, m) /\ CharAt(s, i + n + 1 + m, "/")
  /\ AllDigits(s, i + n + m + 2, 4)

\* the rewrite left out: the slashes stay
ReplaceDayMonthYearSkipped(s) == s

\* s.replace(/(\d{1,2})\/(\d{1,2})\/(\d{4})/, '$1-$2-$3')
ReplaceDayMonthYear(s) ==
  LET lens == {<<2, 2>>, <<2, 1>>, <<1, 2>>, <<1, 1>>}
      hits == {i \in 1..Len(s) : \E p \in lens : MatchDMY(s, i, p[1], p[2])}
  IN IF hits = {} THEN s
     ELSE LET i == CHOOSE h \in hits : \A g \in hits : h <= g
              n == IF \E m \in {1, 2} : MatchDMY(s, i, 2, m) THEN 2 ELSE 1
              m == IF MatchDMY(s, i, n, 2) THEN 2 ELSE 1
          IN SubSeq(s, 1, i - 1)
             \o SubSeq(s, i, i + n - 1) \o <<"-">>
             \o SubSeq(s, i + n + 1, i + n + m) \o <<"-">>
             \o SubSeq(s, i + n + m + 2, i + n + m + 5)
             \o SubSeq(s, i + n + m + 6, Len(s))

formatDate(date, format, loc) ==
  CASE format = "yyyy-m-d" -> toLocaleDateString(date, "en-CA")
    [] format = "m-yyyy-d" -> ReplaceMonthYear(toLocaleDateString(date, "en-GB"))
    [] format = "d-m-yyyy" -> ReplaceDayMonthYear(toLocaleDateString(date, "en-GB"))
    [] OTHER               -> toLocaleDateString(date, loc)

\* ---------------------------------------------------------------- license
IsTag(a) == a \in {"<p>", "</p>", "<strong>", "</strong>"}

\* template.replace(/<p>/g, '').replace(/<\/p>/g, '\n'), then the text
\* content of the element the result is parsed into: every other tag goes
StripMarkup(template) ==
  LET noOpen  == ReplaceAll(template, "<p>", <<>>)
      noClose == ReplaceAll(noOpen, "</p>", <<NL>>)
  IN SelectSeq(noClose, LAMBDA a : ~IsTag(a))

\* the length test left out: an empty list is joined like any other
AuthorsListNoLengthTest(authors) ==
  IF authors # Undefined THEN JoinComma(authors) ELSE <<"N/A">>

\* metadata.authors && metadata.authors.length > 0 ? join : 'N/A'
AuthorsList(authors) ==
  IF authors # Undefined /\ Len(authors) > 0 THEN JoinComma(authors) ELSE <<"N/A">>

\* the chain of .replace calls of generateLicenseContent, in source order
Substitute(text, filename, metadata, downloadDate, year) ==
  LET t1 == ReplaceAll(text, "{filename}", filename)
      t2 == ReplaceAll(t1, "{downloadDate}", downloadDate)
      t3 == ReplaceAll(t2, "{year}", year)
      t4 == ReplaceAll(t3, "{institution}", OrElse(metadata.institution, defaultMetadata.institution))
      t5 == ReplaceAll(t4, "{website}", OrElse(metadata.website, defaultMetadata.website))
      t6 == ReplaceAll(t5, "{contact}", OrElse(metadata.contact, defaultMetadata.contact))
  IN ReplaceAll(t6, "{authorsList}", AuthorsList(metadata.authors))

\* plainTextTemplate.split('\n').map(line => line.trim()).join('\n')
NormalizeLines(text) ==
  LET lines == SplitOn(text, NL)
  IN JoinWith([i \in 1..Len(lines) |-> Trim(lines[i])], NL)

\* generateLicenseContent(filename, metadata) at the instant `date`; reading
\* .replace of a missing licenseTemplate is a TypeError
generateLicenseContent(filename, metadata, date, loc) ==
  IF metadata.licenseTemplate = Undefined
  THEN [threw |-> TRUE, text |-> <<>>]
  ELSE [threw |-> FALSE,
        text  |-> NormalizeLines(
                    Substitute(StripMarkup(metadata.licenseTemplate), filename, metadata,
                               formatDate(date, metadata.dateFormat, loc),
                               Digits(date.year)))]

\* ------------------------------------------------------- type resolution
\* String.prototype.toLowerCase on the atoms file names are built from
LowerAtom(a) ==
  CASE a = "MP3" -> "mp3"
    [] a = "PDF" -> "pdf"
    [] a = "Track" -> "track"
    [] OTHER -> a

toLowerCase(text) == [i \in 1..Len(text) |-> LowerAtom(text[i])]

\* file.name.split('.').pop()
LastSegment(name) ==
  LET parts == SplitOn(name, ".") IN parts[Len(parts)]

\* config.supportedTypes[fileExtension] || config.supportedTypes.default,
\* reduced to the handler the pipeline will call ("none": pass through)
ResolveHandler(name) ==
  LET fileExtension == toLowerCase(LastSegment(name))
  IN IF Len(fileExtension) = 1 THEN supportedTypes(fileExtension[1]).handler ELSE "none"

\* --------------------------------------------------------------- embedders
\* The bytes of a file, as a reader of its format sees them: the format the
\* bytes really are, and the title / author / subject tags they carry.
Bytes(format, title, author, subject) ==
  [format |-> format, title |-> title, author |-> author, subject |-> subject]

\* { ...config.defaultMetadata, ...customMetadata }
MergeDefaults(custom) ==
  [title           |-> custom.title,
   source          |-> IF custom.source = Undefined THEN defaultMetadata.source ELSE custom.source,
   authors         |-> IF custom.authors = Undefined THEN defaultMetadata.authors ELSE custom.authors,
   institution     |-> IF custom.institution = Undefined THEN defaultMetadata.institution ELSE custom.institution,
   website         |-> IF custom.website = Undefined THEN defaultMetadata.website ELSE custom.website,
   contact         |-> IF custom.contact = Undefined THEN defaultMetadata.contact ELSE custom.contact,
   dateFormat      |-> custom.dateFormat,
   licenseTemplate |-> custom.licenseTemplate]

\* attachAudioMetadata: parseBuffer rejects bytes that are no audio container;
\* the tags are set on the parse result only, and the blob is built from the
\* file itself
attachAudioMetadata(file, metadata) ==
  IF file.bytes.format # "audio"
  THEN [threw |-> TRUE, blob |-> [bytes |-> file.bytes, type |-> file.type]]
  ELSE [threw |-> FALSE, blob |-> [bytes |-> file.bytes, type |-> file.type]]

\* attachPDFMetadata: PDFDocument.load rejects bytes that are no PDF; the
\* document properties are set and the document is saved
attachPDFMetadata(file, metadata) ==
  IF file.bytes.format # "pdf"
  THEN [threw |-> TRUE, blob |-> [bytes |-> file.bytes, type |-> file.type]]
  ELSE [threw |-> FALSE,
        blob  |-> [bytes |-> Bytes("pdf",
                                   OrElse(metadata.title, <<"Default Title">>),
                                   OrElse(JoinComma(metadata.authors), JoinComma(defaultMetadata.authors)),
                                   OrElse(metadata.source, defaultMetadata.source)),
                   type  |-> "application/pdf"]]

RunHandler(handler, file, metadata) ==
  CASE handler = "attachAudioMetadata" -> attachAudioMetadata(file, metadata)
    [] handler = "attachPDFMetadata"   -> attachPDFMetadata(file, metadata)
    [] OTHER -> [threw |-> FALSE, blob |-> [bytes |-> file.bytes, type |-> file.type]]

\* the try/catch left out: a throwing handler rejects the whole call
attachMetadataToDownloadNoCatch(file, customMetadata, date, loc) ==
  LET metadata == MergeDefaults(customMetadata)
      handler  == ResolveHandler(file.name)
      embedded == RunHandler(handler, file, metadata)
      license  == generateLicenseContent(file.name, metadata, date, loc)
  IN [rejected      |-> license.threw \/ embedded.threw,
      handler       |-> handler,
      embedThrew    |-> embedded.threw,
      processedFile |-> embedded.blob,
      licenseBlob   |-> IF embedded.threw THEN <<>> ELSE license.text]

\* attachMetadataToDownload(file, customMetadata), the license rendered at
\* `date`: rejected only when generateLicenseContent throws
attachMetadataToDownload(file, customMetadata, date, loc) ==
  LET metadata == MergeDefaults(customMetadata)
      handler  == ResolveHandler(file.name)
      embedded == RunHandler(handler, file, metadata)
      license  == generateLicenseContent(file.name, metadata, date, loc)
  IN [rejected      |-> license.threw,
      handler       |-> handler,
      embedThrew    |-> embedded.threw,
      processedFile |-> IF embedded.threw THEN [bytes |-> file.bytes, type |-> file.type]
                        ELSE embedded.blob,
      licenseBlob   |-> license.text]

\* ------------------------------------------------------------------ state
VARIABLES
  files,      \* state.files of the reducer
  loading,    \* state.loading
  error,      \* state.error
  theme,      \* state.theme
  metadata,   \* the metadata profile held by useState
  dl,         \* the downloadFile invocations in flight, by button press
  console,    \* what console.error has logged: the set of messages
  now,        \* the day the session runs on: an index into Dates
  locale,     \* the platform's default locale
  edits,      \* how many profile edits the user has made
  call,       \* the arguments of a direct call of a pure function
  result      \* what that call returned

vars == <<files, loading, error, theme, metadata, dl, console, now, locale, edits, call, result>>

appVars == <<files, loading, error, theme, metadata, dl, console, now, locale, edits>>

Date(y, m, d) == [year |-> y, month |-> m, day |-> d]

Dates == <<Date(2024, 3, 5), Date(2025, 11, 25)>>

Locales == {"en-US", "en-GB"}

\* the profile useState starts from; title and source are not part of it
initialMetadata ==
  [title           |-> Undefined,
   source          |-> Undefined,
   authors         |-> <<>>,
   institution     |-> defaultMetadata.institution,
   website         |-> defaultMetadata.website,
   contact         |-> defaultMetadata.contact,
   dateFormat      |-> "yyyy-m-d",
   licenseTemplate |-> licenseTextTemplate]

\* a template as the rich-text editor hands it over: paragraphs and markup
htmlTemplate ==
  <<"<p>", "File:", SP, "{filename}", SP, "</p>",
    "<p>", "<strong>", "{institution}", "</strong>", SP, "{year}", "</p>",
    "<p>", SP, "{downloadDate}", "</p>",
    "<p>", "By", SP, "{authorsList}", SP, "</p>",
    "<p>", "{authorsList}", SP, "{contact}", "</p>">>

NoFile == [name |-> <<>>, type |-> "", bytes |-> Bytes("none", <<>>, <<>>, <<>>)]

NoResult ==
  [op |-> "none", rejected |-> FALSE, handler |-> "none", embedThrew |-> FALSE,
   processedFile |-> [bytes |-> NoFile.bytes, type |-> ""], text |-> <<>>]

NoCall ==
  [op |-> "none", file |-> NoFile, metadata |-> initialMetadata, date |-> Dates[1], loc |-> "en-US"]

\* the value of every variable of the application after the first render
InitApp ==
  /\ files = <<>>
  /\ loading = FALSE
  /\ error = "null"
  /\ theme = "light"
  /\ metadata = initialMetadata
  /\ console = {}
  /\ edits = 0

\* ------------------------------------------- direct calls of the functions
AuthorNames == {"", "Ada", "Bob"}

\* ordered sequences of trimmed author strings, up to MaxAuthors long
AuthorSeqs == UNION {[1..n -> AuthorNames] : n \in 0..MaxAuthors}

RenderNames == {<<"track", ".", "mp3">>, <<"{year}", ".", "pdf">>}

RenderProfiles ==
  [title           : {Undefined},
   source          : {Undefined},
   authors         : AuthorSeqs \cup {Undefined},
   institution     : {Undefined, <<"Acme", SP, "Labs">>, <<"{contact}">>},
   website         : {<<>>, <<"w.org">>},
   contact         : {<<>>, <<"me@x">>},
   dateFormat      : {"yyyy-m-d", "m-yyyy-d", "d-m-yyyy", "undefined"},
   licenseTemplate : {licenseTextTemplate, htmlTemplate, <<>>, Undefined}]

RenderCalls ==
  [op : {"generateLicenseContent"},
   file : {[name |-> n, type |-> "", bytes |-> NoFile.bytes] : n \in RenderNames},
   metadata : RenderProfiles,
   date : {Dates[i] : i \in 1..Len(Dates)},
   loc : Locales]

AttachNames ==
  {<<"track", ".", "mp3">>, <<"Track", ".", "MP3">>, <<"a", ".", "tar", ".", "flac">>,
   <<"doc", ".", "pdf">>, <<"doc", ".", "PDF">>, <<"pic", ".", "png">>,
   <<"photo", ".", "heic">>, <<"notes">>, <<"pdf">>, <<"MP3">>, <<"draft", ".">>}

\* the MIME type the browser reports for a file of that name
MimeOf(name) ==
  LET ext == toLowerCase(LastSegment(name))
  IN IF Len(name) > 1 /\ Len(ext) = 1 /\ supportedTypes(ext[1]).known
     THEN ext[1] ELSE ""

OldBytes(format) == Bytes(format, <<"Old", SP, "Title">>, <<"Old", SP, "Artist">>, <<"Old", SP, "Album">>)

AttachFiles ==
  {[name |-> n, type |-> MimeOf(n), bytes |-> OldBytes(f)] :
     n \in AttachNames, f \in {"audio", "pdf", "garbage"}}

\* customMetadata = {} is the function's default argument
emptyCustom ==
  [title |-> Undefined, source |-> Undefined, authors |-> Undefined,
   institution |-> Undefined, website |-> Undefined, contact |-> Undefined,
   dateFormat |-> "undefined", licenseTemplate |-> Undefined]

AttachProfiles ==
  {emptyCustom,
   initialMetadata,
   [initialMetadata EXCEPT !.authors = <<"Ada", "Bob">>, !.title = <<"T">>, !.source = <<"S">>],
   [initialMetadata EXCEPT !.authors = <<"">>, !.institution = <<>>, !.licenseTemplate = htmlTemplate],
   [emptyCustom EXCEPT !.licenseTemplate = licenseTextTemplate]}

AttachCalls ==
  [op : {"attachMetadataToDownload"},
   file : AttachFiles,
   metadata : AttachProfiles,
   date : {Dates[1]},
   loc : {"en-US"}]

InitPure ==
  /\ InitApp
  /\ dl = <<>>
  /\ now = 1
  /\ call \in RenderCalls \cup AttachCalls
  /\ locale = call.loc
  /\ result = NoResult

CallGenerateLicenseContent ==
  /\ call.op = "generateLicenseContent"
  /\ result.op = "none"
  /\ \E r \in {generateLicenseContent(call.file.name, call.metadata, call.date, call.loc)} :
       result' = [NoResult EXCEPT !.op = call.op, !.rejected = r.threw, !.text = r.text]
  /\ UNCHANGED <<appVars, call>>

CallAttachMetadataToDownload ==
  /\ call.op = "attachMetadataToDownload"
  /\ result.op = "none"
  /\ \E r \in {attachMetadataToDownload(call.file, call.metadata, call.date, call.loc)} :
       result' = [op |-> call.op, rejected |-> r.rejected, handler |-> r.handler,
                  embedThrew |-> r.embedThrew, processedFile |-> r.processedFile,
                  text |-> r.licenseBlob]
  /\ UNCHANGED <<appVars, call>>

NextPure == CallGenerateLicenseContent \/ CallAttachMetadataToDownload

SpecPure == InitPure /\ [][NextPure]_vars

\* --------------------------------------------------------- the application
\* the files the user can pick: name, reported MIME type, actual bytes
AppFiles ==
  {[name |-> <<"track", ".", "mp3">>, type |-> "mp3", bytes |-> OldBytes("audio")],
   [name |-> <<"doc", ".", "pdf">>,   type |-> "pdf", bytes |-> OldBytes("pdf")],
   [name |-> <<"doc", ".", "pdf">>,   type |-> "pdf", bytes |-> OldBytes("garbage")]}

Init ==
  /\ InitApp
  /\ dl = <<>>
  /\ now \in 1..Len(Dates)
  /\ locale = "en-US"
  /\ call = NoCall
  /\ result = NoResult

\* handleFileUpload: dispatch ADD_FILES with the picked files.  A listed file
\* is modelled by the File it wraps; its size and its preview object URL,
\* which nothing but the list rendering and clearFiles' revoke read, are left
\* out.  Picking several files at once lists them as picking them in turn.
handleFileUpload(picked) ==
  /\ Len(files) + Len(picked) <= MaxFiles
  /\ files' = files \o picked
  /\ UNCHANGED <<loading, error, theme, metadata, dl, console, now, locale, edits, call, result>>

\* removeFile: dispatch REMOVE_FILE with the name of the i-th listed file
removeFile(i) ==
  /\ i \in 1..Len(files)
  /\ files' = SelectSeq(files, LAMBDA f : f.name # files[i].name)
  /\ UNCHANGED <<loading, error, theme, metadata, dl, console, now, locale, edits, call, result>>

\* clearFiles: dispatch CLEAR_FILES; the button shows only over a non-empty list
clearFiles ==
  /\ Len(files) > 0
  /\ files' = <<>>
  /\ UNCHANGED <<loading, error, theme, metadata, dl, console, now, locale, edits, call, result>>

\* setMetadata({...metadata, field: value})
setMetadata(m) ==
  /\ edits < MaxEdits
  /\ edits' = edits + 1
  /\ metadata' = m
  /\ UNCHANGED <<files, loading, error, theme, dl, console, now, locale, call, result>>

\* what the user can type into the authors field
AuthorInputs ==
  {<<"Ada", ",", SP, "Bob", ",">>}

\* e.target.value.split(',').map(a => a.trim())
ParseAuthors(raw) ==
  LET parts == SplitOn(raw, ",")
  IN [i \in 1..Len(parts) |->
        IF Trim(parts[i]) = <<>> THEN "" ELSE Trim(parts[i])[1]]

ChangeAuthors ==
  \E raw \in AuthorInputs :
    setMetadata([metadata EXCEPT !.authors = ParseAuthors(raw)])

ChangeInstitution ==
  \E v \in {<<>>} :
    setMetadata([metadata EXCEPT !.institution = v])

ChangeWebsite ==
  \E v \in {<<"{contact}">>} :
    setMetadata([metadata EXCEPT !.website = v])

ChangeContact ==
  \E v \in {<<"{website}">>} :
    setMetadata([metadata EXCEPT !.contact = v])

ChangeDateFormat ==
  \E v \in {"d-m-yyyy"} :
    setMetadata([metadata EXCEPT !.dateFormat = v])

\* the editor's onChange hands over its content as markup
ChangeLicenseTemplate ==
  \E v \in {htmlTemplate} :
    setMetadata([metadata EXCEPT !.licenseTemplate = v])

\* insertVariable: the editor inserts {variable} at the cursor, and its
\* onChange then stores the new content
insertVariable(variable, index) ==
  /\ index \in 0..Len(metadata.licenseTemplate)
  /\ setMetadata([metadata EXCEPT !.licenseTemplate =
       SubSeq(@, 1, index) \o <<variable>> \o SubSeq(@, index + 1, Len(@))])

\* zip.file(name, data): one entry per name, a later one replaces an earlier
ZipFile(zip, entry) ==
  SelectSeq(zip, LAMBDA e : e.name # entry.name) \o <<entry>>

FileEntry(name, blob) == [name |-> name, blob |-> blob, text |-> <<>>]

TextEntry(name, text) == [name |-> name, blob |-> NoResult.processedFile, text |-> text]

\* the license stored under the name of the file itself
LicenseEntryNameOfFile(name) == name

\* `${file.name}.license.txt`
LicenseEntryName(name) == name \o <<".license.txt">>

\* `${file.name}.zip`
ArchiveName(name) == name \o <<".zip">>

\* the profile read afresh at every use instead of from the closure
ProfileSeenByLive(d) == metadata

\* the `metadata` the body of downloadFile d reads: the one of the render
\* its button was pressed in
ProfileSeenBy(d) == dl[d].metadata

NoAttach ==
  [rejected |-> FALSE, handler |-> "none", embedThrew |-> FALSE,
   processedFile |-> NoResult.processedFile, licenseBlob |-> <<>>]

\* downloadFile(file) up to the first suspension: attachMetadataToDownload
\* resolves the type and calls the handler, which starts reading the file
downloadFile(i) ==
  /\ i \in 1..Len(files)
  /\ Len(dl) < MaxDownloads
  /\ dl' = Append(dl, [pc       |-> IF ResolveHandler(files[i].name) = "none"
                                    THEN "resuming" ELSE "reading",
                       file     |-> files[i],
                       metadata |-> metadata,
                       attached |-> NoAttach,
                       zip      |-> <<>>,
                       outcome  |-> "none",
                       download |-> <<>>])
  /\ UNCHANGED <<files, loading, error, theme, metadata, console, now, locale, edits, call, result>>

\* file.arrayBuffer() resolves; the handler goes on to parse or load the bytes
ReadDone(d) ==
  /\ d \in 1..Len(dl)
  /\ dl[d].pc = "reading"
  /\ dl' = [dl EXCEPT ![d].pc = "embedding"]
  /\ UNCHANGED <<files, loading, error, theme, metadata, console, now, locale, edits, call, result>>

\* the handler settles; attachMetadataToDownload returns, and downloadFile
\* fills the archive and starts zip.generateAsync
EmbedDone(d) ==
  /\ d \in 1..Len(dl)
  /\ dl[d].pc \in {"embedding", "resuming"}
  /\ \E attached \in {attachMetadataToDownload(dl[d].file, ProfileSeenBy(d), Dates[now], locale)} :
     \E license \in {generateLicenseContent(dl[d].file.name, ProfileSeenBy(d), Dates[now], locale)} :
       LET name   == dl[d].file.name
           zip    == ZipFile(ZipFile(<<>>, FileEntry(name, attached.processedFile)),
                             TextEntry(LicenseEntryName(name), license.text))
           failed == attached.rejected \/ license.threw
       IN /\ dl' = [dl EXCEPT ![d].attached = attached,
                              ![d].pc = IF failed THEN "done" ELSE "zipping",
                              ![d].outcome = IF failed THEN "failed" ELSE "none",
                              ![d].zip = IF failed THEN <<>> ELSE zip]
          /\ console' = console
               \cup (IF attached.embedThrew /\ attached.handler = "attachAudioMetadata"
                     THEN {"Error reading audio metadata:"} ELSE {})
               \cup (IF attached.embedThrew THEN {"Error attaching metadata:"} ELSE {})
               \cup (IF failed THEN {"Error downloading file:"} ELSE {})
  /\ UNCHANGED <<files, loading, error, theme, metadata, now, locale, edits, call, result>>

\* zip.generateAsync settles: the link is clicked, or the catch logs the error
generateAsyncDone(d, ok) ==
  /\ d \in 1..Len(dl)
  /\ dl[d].pc = "zipping"
  /\ dl' = [dl EXCEPT ![d].pc = "done",
                      ![d].outcome = IF ok THEN "delivered" ELSE "failed",
                      ![d].download = IF ok THEN ArchiveName(dl[d].file.name) ELSE <<>>]
  /\ console' = IF ok THEN console ELSE console \cup {"Error downloading file:"}
  /\ UNCHANGED <<files, loading, error, theme, metadata, now, locale, edits, call, result>>

Next ==
  \/ \E picked \in {<<f>> : f \in AppFiles} : handleFileUpload(picked)
  \/ \E i \in 1..MaxFiles : removeFile(i)
  \/ clearFiles
  \/ ChangeAuthors
  \/ ChangeInstitution
  \/ ChangeWebsite
  \/ ChangeContact
  \/ ChangeDateFormat
  \/ ChangeLicenseTemplate
  \/ \E v \in {"{year}"} : \E index \in {0} : insertVariable(v, index)
  \/ \E i \in 1..MaxFiles : downloadFile(i)
  \/ \E d \in 1..MaxDownloads : ReadDone(d)
  \/ \E d \in 1..MaxDownloads : EmbedDone(d)
  \/ \E d \in 1..MaxDownloads : \E ok \in BOOLEAN : generateAsyncDone(d, ok)

Spec == Init /\ [][Next]_vars

\* ================================================================== claims
HasAtom(text, a) == \E i \in 1..Len(text) : text[i] = a

Rendered == result.op = "generateLicenseContent" /\ ~result.rejected

Attached == result.op = "attachMetadataToDownload"

\* C3: rendering the license never fails because a metadata field is absent
\* or empty: every call of generateLicenseContent, and every call of
\* attachMetadataToDownload (the default empty custom metadata included),
\* returns a license and does not throw.
C3_RenderNeverFails == result.op # "none" => ~result.rejected

\* the embedder the static table gives the extension after the last '.',
\* compared case-insensitively; a name without '.' has no extension
ExpectedHandler(name) ==
  IF ~HasAtom(name, ".") THEN "none"
  ELSE LET ext == toLowerCase(LastSegment(name))
       IN IF ext \in {<<"wav">>, <<"mp3">>, <<"ogg">>, <<"flac">>} THEN "attachAudioMetadata"
          ELSE IF ext = <<"pdf">> THEN "attachPDFMetadata"
          ELSE "none"

\* C4: type resolution: wav/mp3/ogg/flac after the last '.' (in any case)
\* resolve to the audio embedder, pdf to the document embedder, every other
\* name, a name with no extension included, to no embedder.
C4_TypeResolution == Attached => result.handler = ExpectedHandler(call.file.name)

\* what {authorsList} stands for: "N/A" for no authors, else the authors
\* joined with ", " in their order
ExpectedAuthors(authors) ==
  IF authors = Undefined \/ authors = <<>> THEN <<"N/A">> ELSE JoinComma(authors)

Hyphenated(a, b, c) == a \o <<"-">> \o b \o <<"-">> \o c

\* the date each format is said to give, day and month unpadded under
\* 'd-m-yyyy' as in the example "5-3-2024"
DateAsStated(date, format, loc) ==
  CASE format = "yyyy-m-d" -> Hyphenated(Digits(date.year), Pad2(date.month), Pad2(date.day))
    [] format = "m-yyyy-d" -> Digits(date.year) \o <<"-">> \o Pad2(date.month)
    [] format = "d-m-yyyy" -> Hyphenated(Digits(date.day), Digits(date.month), Digits(date.year))
    [] OTHER -> toLocaleDateString(date, loc)

DateAmended(date, format, loc) ==
  CASE format = "yyyy-m-d" -> Hyphenated(Digits(date.year), Pad2(date.month), Pad2(date.day))
    [] format = "m-yyyy-d" -> Pad2(date.day) \o <<"/">> \o Digits(date.year) \o <<"-">> \o Pad2(date.month)
    [] format = "d-m-yyyy" -> Hyphenated(Pad2(date.day), Pad2(date.month), Digits(date.year))
    [] OTHER -> toLocaleDateString(date, loc)

ValueOf(token, filename, profile, date, loc) ==
  CASE token = "{filename}"     -> filename
    [] token = "{downloadDate}" -> formatDate(date, profile.dateFormat, loc)
    [] token = "{year}"         -> Digits(date.year)
    [] token = "{institution}"  -> OrElse(profile.institution, defaultMetadata.institution)
    [] token = "{website}"      -> OrElse(profile.website, defaultMetadata.website)
    [] token = "{contact}"      -> OrElse(profile.contact, defaultMetadata.contact)
    [] token = "{authorsList}"  -> ExpectedAuthors(profile.authors)

\* every placeholder of the text replaced in one pass over the text
SinglePass(text, filename, profile, date, loc) ==
  Flatten([i \in 1..Len(text) |->
             IF text[i] \in PlaceholderSet
             THEN ValueOf(text[i], filename, profile, date, loc)
             ELSE <<text[i]>>])

\* C10: no re-substitution chains: each placeholder of the template is
\* replaced in a single pass, so the text inserted for one placeholder is
\* never rewritten by the substitution of another.
C10_NoResubstitution ==
  Rendered =>
    result.text =
      NormalizeLines(SinglePass(StripMarkup(call.metadata.licenseTemplate),
                                call.file.name, call.metadata, call.date, call.loc))

Settled(d) == dl[d].pc \in {"zipping", "done"}

\* no value that is substituted carries the text of a placeholder itself
ValuesPlain(name, profile) ==
  \A v \in {name, profile.institution, profile.website, profile.contact} :
    \A a \in PlaceholderSet : ~HasAtom(v, a)

C2_EmbedRoundTrip ==
  \A d \in 1..Len(dl) :
    (Settled(d) /\ dl[d].attached.handler # "none" /\ ~dl[d].attached.embedThrew) =>
      LET supplied == MergeDefaults(dl[d].metadata)
          bytes    == dl[d].attached.processedFile.bytes
      IN /\ bytes.format = dl[d].file.bytes.format
         /\ bytes.title = OrElse(supplied.title, <<"Default Title">>)
         /\ bytes.author = JoinComma(supplied.authors)
         /\ bytes.subject = OrElse(supplied.source, defaultMetadata.source)

\* C5: profile snapshot per download: the metadata handed to the embedder
\* and the license written into the archive of a download are computed from
\* the profile as it was when the download was started, whatever the profile
\* has become since and whatever other downloads are in flight.
C5_ProfileSnapshot ==
  \A d \in 1..Len(dl) :
    (Settled(d) /\ dl[d].outcome # "failed") =>
      /\ dl[d].attached =
           attachMetadataToDownload(dl[d].file, dl[d].metadata, Dates[now], locale)
      /\ dl[d].zip[Len(dl[d].zip)].text =
           generateLicenseContent(dl[d].file.name, dl[d].metadata, Dates[now], locale).text

C5_Witness ==
  \E d, e \in 1..Len(dl) :
    /\ dl[d].pc = "done" /\ dl[d].outcome = "delivered"
    /\ dl[d].metadata # metadata
    /\ dl[d].attached.handler = "attachPDFMetadata" /\ ~dl[d].attached.embedThrew
    /\ dl[e].pc = "zipping"
    /\ dl[e].file # dl[d].file

\* C6: archive shape: a delivered download is one zip archive of exactly two
\* entries, the processed file under the original file name and the license
\* text under that name + ".license.txt", offered as that name + ".zip".
C6_ArchiveShape ==
  \A d \in 1..Len(dl) :
    dl[d].outcome = "delivered" =>
      LET name == dl[d].file.name IN
      /\ Len(dl[d].zip) = 2
      /\ dl[d].zip[1].name = name
      /\ dl[d].zip[1].blob = dl[d].attached.processedFile
      /\ dl[d].zip[2].name = name \o <<".license.txt">>
      /\ dl[d].zip[2].text =
           generateLicenseContent(name, dl[d].metadata, Dates[now], locale).text
      /\ dl[d].download = name \o <<".zip">>

C6_Witness ==
  \E d \in 1..Len(dl) :
    /\ dl[d].outcome = "delivered"
    /\ dl[d].attached.embedThrew
    /\ dl[d].download = <<"doc", ".", "pdf", ".zip">>

\* C7: packaging failure handling: a download whose archive assembly fails
\* surfaces the failure to the caller (the application's error state is set,
\* the failure is not merely logged) and triggers no download.
C7_PackagingFailureSurfaced ==
  \A d \in 1..Len(dl) :
    dl[d].outcome = "failed" => (error # "null" /\ dl[d].download = <<>>)

====
